---- MODULE Spec2Model ----
(***************************************************************************)
(* The browser-side authentication client                                  *)
(* (client/src/components/AuthClient.ts): the module-level user cache      *)
(* `_user`, the request wrappers friendlyFetch / postAuthRequest /         *)
(* postLoginCredentials, and the operations built on them.                 *)
(*                                                                         *)
(* Every asynchronous operation is two steps: the call (the synchronous    *)
(* part up to the request being handed to fetch) and the resumption (the   *)
(* network outcome arrives and the rest of the function runs to its        *)
(* return or throw).  Between the two, any other call or resumption may    *)
(* run: JavaScript is single-threaded, so each step is atomic.  The await  *)
(* of result.json() inside the wrappers is part of the resumption: nothing *)
(* is read or written between the response and its parsed body.           *)
(***************************************************************************)
EXTENDS Integers, Sequences, FiniteSets, TLC

VARIABLES _user, calls, prevFetch, sinceClear, last

vars == <<_user, calls, prevFetch, sinceClear, last>>

\* Largest number of operations awaiting a network outcome at one time.
MaxInFlight == 2

CallIds == 1..MaxInFlight

\* An optional value (undefined in the source) is a set of at most one element.
None == {}
Some(x) == {x}
The(s) == CHOOSE x \in s : TRUE

-----------------------------------------------------------------------------
(* JSON bodies, responses and network outcomes                             *)

EmptyObject ==
  [email |-> None, verified |-> None, id |-> None, type |-> None,
   subscriptions |-> None, subscription_limit |-> None,
   status_code |-> None, status_text |-> None]

JsonNull == [isNull |-> TRUE, obj |-> EmptyObject]
JsonObject(o) == [isNull |-> FALSE, obj |-> o]

Subscription1 ==
  [bbl |-> "3012380016", housenumber |-> "654", streetname |-> "PARK PLACE",
   zip |-> "11216", boro |-> "BROOKLYN"]

\* auth/auth_check answers for two different logged-in users
UserObjectA ==
  [EmptyObject EXCEPT !.email = Some("a@b.com"), !.verified = Some(TRUE),
                      !.id = Some(1), !.type = Some("TENANT"),
                      !.subscriptions = Some(<<Subscription1>>),
                      !.subscription_limit = Some(15)]
UserObjectB ==
  [EmptyObject EXCEPT !.email = Some("c@d.org"), !.verified = Some(FALSE),
                      !.id = Some(2), !.type = Some("ORGANIZER"),
                      !.subscription_limit = Some(15)]
\* a status answer of the reset / verify endpoints
StatusObject ==
  [EmptyObject EXCEPT !.status_code = Some(200), !.status_text = Some("ok")]
\* an error answer such as {"detail": "..."}: none of the fields read here
ErrorObject == EmptyObject

\* A body either parses as JSON (to val) or does not (an HTML error page).
NotJsonBody == [parses |-> FALSE, val |-> JsonNull]
JsonBody(v) == [parses |-> TRUE, val |-> v]

CacheBodies ==
  {NotJsonBody, JsonBody(JsonNull), JsonBody(JsonObject(UserObjectA)),
   JsonBody(JsonObject(UserObjectB)), JsonBody(JsonObject(ErrorObject))}

\* Whether the server sends body b with a success status (2xx).
SentOk(b) == b.parses /\ b.val # JsonObject(ErrorObject)

FlowBodies ==
  {NotJsonBody, JsonBody(JsonNull), JsonBody(JsonObject(StatusObject)),
   JsonBody(JsonObject(ErrorObject))}

FailedToFetch == "Failed to fetch"

\* What fetch() does: it rejects (with an Error or with some other value) or
\* resolves to a Response.
Reject(isErr) ==
  [kind |-> "reject", isError |-> isErr, message |-> FailedToFetch,
   ok |-> FALSE, body |-> NotJsonBody]
Response(ok, b) ==
  [kind |-> "response", isError |-> FALSE, message |-> "",
   ok |-> ok, body |-> b]

OutcomesOf(bodies) ==
  {Reject(e) : e \in BOOLEAN} \cup {Response(ok, b) : ok \in BOOLEAN, b \in bodies}

\* The outcomes of the requests of the cache operations: a body comes with
\* the status the server gives it.
CacheOutcomes ==
  {Reject(e) : e \in BOOLEAN} \cup {Response(SentOk(b), b) : b \in CacheBodies}
FlowOutcomes == OutcomesOf(FlowBodies)

-----------------------------------------------------------------------------
(* JavaScript values and exceptions                                        *)

\* A value an operation handles: a parsed JSON value or the raw Response.
JsonValue(v) == [t |-> "json", json |-> v, ok |-> FALSE]
RawResponse(o) == [t |-> "response", json |-> JsonNull, ok |-> o.ok]
\* What fetchUser returns: the cache, a user or undefined.
UserValue(u) == [t |-> "user", user |-> u]

Truthy(v) == v.t = "response" \/ ~v.json.isNull

NetworkError(m) == [cls |-> "NetworkError", message |-> m]
Error(m) == [cls |-> "Error", message |-> m]
SyntaxError == [cls |-> "SyntaxError", message |-> "Unexpected token < in JSON"]
TypeError == [cls |-> "TypeError", message |-> "Cannot read properties of null"]

InstanceOfError(e) == e.cls \in {"Error", "NetworkError", "SyntaxError", "TypeError"}

\* How an awaited call ends: it throws e or returns v.
Throw(e) == [threw |-> Some(e), ret |-> None]
Return(v) == [threw |-> None, ret |-> Some(v)]

\* v[key] for a truthy v.  A Response has no field of the JSON payloads but
\* `type`, which is "cors" for these cross-origin requests.
Prop(v, key) ==
  IF v.t = "json" THEN v.json.obj[key]
  ELSE IF key = "type" THEN Some("cors") ELSE None

-----------------------------------------------------------------------------
(* The request wrappers                                                    *)

Request(endpoint, method, credentials) ==
  [endpoint |-> endpoint, method |-> method, credentials |-> credentials]

friendlyFetch(o) ==
  IF o.kind = "reject"
  THEN IF o.isError THEN Throw(NetworkError(o.message))
                    ELSE Throw(Error("Unexpected error"))
  ELSE Return(o)

postAuthRequest(o) ==
  LET result == friendlyFetch(o) IN
  IF result.threw # None THEN result
  ELSE IF o.body.parses THEN Return(JsonValue(o.body.val))
       ELSE Return(RawResponse(o))

postLoginCredentials(o) ==
  LET result == friendlyFetch(o) IN
  IF result.threw # None THEN result
  ELSE IF o.body.parses THEN Return(JsonValue(o.body.val))
       ELSE Throw(SyntaxError)

userAuthenticated(o) == postAuthRequest(o)

AuthCheck == Request("auth/auth_check", "POST", TRUE)

-----------------------------------------------------------------------------
(* The user cache                                                          *)

\* The JustfixUser that fetchUser builds from a truthy authCheck.
UserFrom(authCheck) ==
  LET subs == Prop(authCheck, "subscriptions") IN
  [email |-> Prop(authCheck, "email"),
   verified |-> Prop(authCheck, "verified"),
   id |-> Prop(authCheck, "id"),
   type |-> Prop(authCheck, "type"),
   subscriptions |-> IF subs = None THEN <<>>
                     ELSE [i \in DOMAIN The(subs) |-> The(subs)[i]],
   subscriptionLimit |-> Prop(authCheck, "subscription_limit")]

\* The users a caller hands to setUser.
SetUserInputs == {UserFrom(JsonValue(JsonObject(UserObjectA)))}

\* A slot of `calls`: the operation awaiting its network outcome there.
\* raced: another authentication check settled while this one was pending.
Idle == [op |-> "idle", by |-> "", raced |-> FALSE]

\* prevFetch: the fetchUser() call that completed last, while no clearUser() has
\* run and no other fetchUser() has started since (valid); whether it issued
\* a check, whether the server answered it, whether it returned a user.
NoPrev == [valid |-> FALSE, issued |-> FALSE, answered |-> FALSE, hadUser |-> FALSE]

\* `last` describes the step just taken: the operation, what it sent and got,
\* how it ended, and the cache as the step found it (userPre).
NoEvent ==
  [ev |-> "init", op |-> "", id |-> 0, started |-> FALSE, request |-> None,
   outcome |-> None, threw |-> None, ret |-> None, userPre |-> None,
   before |-> None, isolated |-> FALSE, prev |-> NoPrev, clearedPre |-> "no",
   raced |-> FALSE, peerPending |-> FALSE, by |-> "", refresh |-> ""]

Init ==
  /\ _user = None
  /\ calls = [i \in CallIds |-> Idle]
  /\ prevFetch = NoPrev
  /\ sinceClear = "no"
  /\ last = NoEvent

-----------------------------------------------------------------------------
(* Bookkeeping shared by the steps                                         *)

FetchPending(cs, id) == \E j \in CallIds : j # id /\ cs[j].op = "fetchUser"

\* Slot `id` starts awaiting the outcome of the request of operation `op`.
Await(cs, id, op, by) ==
  [cs EXCEPT ![id] = [op |-> op, by |-> by, raced |-> FALSE]]

\* Slot `id` is done; the authentication checks pending with it have raced.
Finish(cs, id) ==
  [i \in CallIds |->
     IF i = id THEN Idle
     ELSE IF cs[id].op = "fetchUser" /\ cs[i].op = "fetchUser"
          THEN [cs[i] EXCEPT !.raced = TRUE]
          ELSE cs[i]]

\* A caller's new call takes the lowest free slot.
Free(id) ==
  /\ calls[id].op = "idle"
  /\ \A j \in CallIds : j < id => calls[j].op # "idle"

\* No other step has run since the call in slot `id` was made.
Undisturbed(id) ==
  /\ last.id = id
  /\ last.ev = "call" \/ last.refresh = "pending"

CallEvent(id, op, request) ==
  [NoEvent EXCEPT !.ev = "call", !.op = op, !.id = id, !.started = TRUE,
                  !.request = Some(request), !.userPre = _user]

SettleEvent(id, o, r) ==
  [NoEvent EXCEPT !.ev = "settle", !.op = calls[id].op, !.id = id,
                  !.outcome = Some(o), !.threw = r.threw, !.ret = r.ret,
                  !.userPre = _user, !.isolated = Undisturbed(id),
                  !.before = IF Undisturbed(id) THEN last.userPre ELSE None,
                  !.raced = calls[id].raced, !.by = calls[id].by]

-----------------------------------------------------------------------------
(* The user cache: user, fetchUser, setUser, clearUser                     *)

\* What clearUser leaves in the cache.
ClearedUser == None

\* Variants of the test: one that never trusts the cache, one inverted.
CacheMissAlways(u) == TRUE
CacheMissInverted(u) == u # None

\* The test `if (!_user)` of fetchUser: the cache is empty, a check is issued.
CacheMiss(u) == u = None

\* A variant that builds a user from any answer, without the test of authCheck.
FetchedUserUntested(authCheck) == Some(UserFrom(authCheck))

\* The cache after fetchUser's continuation has run on authCheck.
FetchedUser(authCheck) ==
  IF Truthy(authCheck) THEN Some(UserFrom(authCheck)) ELSE ClearedUser

\* A variant that tests the cache again after the await and keeps a user
\* written meanwhile.
fetchUserContinueFirstWins(u, r) ==
  IF r.threw # None \/ u # None THEN u ELSE FetchedUser(The(r.ret))

\* The cache after the rest of fetchUser has run, u being the cache as the
\* answer r of userAuthenticated() finds it: a throw leaves the function
\* before any assignment.
fetchUserContinue(u, r) ==
  IF r.threw # None THEN u ELSE FetchedUser(The(r.ret))

setUser(u) ==
  /\ _user' = Some(u)
  /\ sinceClear' = "no"
  /\ last' = [NoEvent EXCEPT !.ev = "setUser", !.userPre = _user]
  /\ UNCHANGED <<calls, prevFetch>>

clearUser ==
  /\ _user' = ClearedUser
  /\ sinceClear' = "clean"
  /\ prevFetch' = NoPrev
  /\ last' = [NoEvent EXCEPT !.ev = "clearUser", !.userPre = _user]
  /\ UNCHANGED calls

\* fetchUser() up to its await: a cache hit returns at once, a miss issues
\* the authentication check.
fetchUser(id) ==
  /\ Free(id)
  /\ sinceClear' = "no"
  /\ UNCHANGED _user
  /\ IF CacheMiss(_user)
     THEN /\ calls' = Await(calls, id, "fetchUser", "caller")
          /\ prevFetch' = NoPrev
          /\ last' = [CallEvent(id, "fetchUser", AuthCheck) EXCEPT
                        !.prev = prevFetch, !.clearedPre = sinceClear,
                        !.peerPending = FetchPending(calls, id)]
     ELSE /\ UNCHANGED calls
          /\ prevFetch' = [valid |-> TRUE, issued |-> FALSE, answered |-> FALSE, hadUser |-> TRUE]
          /\ last' = [NoEvent EXCEPT !.ev = "settle", !.op = "fetchUser",
                        !.started = TRUE, !.ret = Some(UserValue(_user)),
                        !.userPre = _user,
                        !.prev = prevFetch, !.clearedPre = sinceClear,
                        !.peerPending = FetchPending(calls, id)]

\* fetchUser() from the answer of userAuthenticated() to its return.
fetchUserResume(id, o) ==
  /\ calls[id].op = "fetchUser"
  /\ LET r == userAuthenticated(o)
         after == fetchUserContinue(_user, r)
         wrote == r.threw = None /\ Truthy(The(r.ret))
         cleans == r.threw = None /\ ~Truthy(The(r.ret))
     IN
     /\ _user' = after
     /\ calls' = Finish(calls, id)
     /\ prevFetch' = [valid |-> TRUE, issued |-> TRUE,
                      answered |-> o.kind = "response",
                      hadUser |-> r.threw = None /\ after # None]
     /\ sinceClear' = IF wrote /\ sinceClear # "no" THEN "stale" ELSE sinceClear
     /\ last' = [SettleEvent(id, o, r) EXCEPT
                   !.clearedPre = sinceClear,
                   !.ret = IF r.threw # None THEN None ELSE Some(UserValue(after))]

-----------------------------------------------------------------------------
(* register, login, logout                                                 *)

register(id) ==
  /\ Free(id)
  /\ calls' = Await(calls, id, "register", "caller")
  /\ sinceClear' = "no"
  /\ last' = CallEvent(id, "register", Request("auth/register", "POST", TRUE))
  /\ UNCHANGED <<_user, prevFetch>>

\* register() from the answer of auth/register on: fetchUser() is called and
\* not awaited, so register returns while the check it issued is pending.
registerResume(id, o) ==
  /\ calls[id].op = "register"
  /\ LET r == postAuthRequest(o)
         refreshes == r.threw = None /\ CacheMiss(_user)
     IN
     /\ calls' = IF refreshes
                 THEN Await(calls, id, "fetchUser", "register")
                 ELSE Finish(calls, id)
     /\ prevFetch' = IF r.threw # None THEN prevFetch
                     ELSE IF refreshes THEN NoPrev
                     ELSE [valid |-> TRUE, issued |-> FALSE, answered |-> FALSE, hadUser |-> TRUE]
     /\ last' = [SettleEvent(id, o, r) EXCEPT
                   !.request = IF refreshes THEN Some(AuthCheck) ELSE None,
                   !.refresh = IF r.threw # None THEN "not called"
                               ELSE IF refreshes THEN "pending"
                               ELSE "cache hit"]
  /\ UNCHANGED <<_user, sinceClear>>

login(id) ==
  /\ Free(id)
  /\ calls' = Await(calls, id, "login", "caller")
  /\ last' = CallEvent(id, "login", Request("auth/login", "POST", TRUE))
  /\ UNCHANGED <<_user, prevFetch, sinceClear>>

loginResume(id, o) ==
  /\ calls[id].op = "login"
  /\ calls' = Finish(calls, id)
  /\ last' = SettleEvent(id, o, postLoginCredentials(o))
  /\ UNCHANGED <<_user, prevFetch, sinceClear>>

logout(id) ==
  /\ Free(id)
  /\ calls' = Await(calls, id, "logout", "caller")
  /\ last' = CallEvent(id, "logout", Request("auth/logout", "POST", TRUE))
  /\ UNCHANGED <<_user, prevFetch, sinceClear>>

\* A variant of logout that clears the cache once the server has answered.
logoutResumeClearing(id, o) ==
  /\ calls[id].op = "logout"
  /\ calls' = Finish(calls, id)
  /\ last' = SettleEvent(id, o, postAuthRequest(o))
  /\ _user' = IF postAuthRequest(o).threw = None THEN ClearedUser ELSE _user
  /\ UNCHANGED <<prevFetch, sinceClear>>

logoutResume(id, o) ==
  /\ calls[id].op = "logout"
  /\ calls' = Finish(calls, id)
  /\ last' = SettleEvent(id, o, postAuthRequest(o))
  /\ UNCHANGED <<_user, prevFetch, sinceClear>>

Next ==
  \/ \E u \in SetUserInputs : setUser(u)
  \/ clearUser
  \/ \E id \in CallIds : fetchUser(id)
  \/ \E id \in CallIds, o \in CacheOutcomes : fetchUserResume(id, o)
  \/ \E id \in CallIds : register(id)
  \/ \E id \in CallIds, o \in CacheOutcomes : registerResume(id, o)
  \/ \E id \in CallIds : login(id)
  \/ \E id \in CallIds, o \in CacheOutcomes : loginResume(id, o)
  \/ \E id \in CallIds : logout(id)
  \/ \E id \in CallIds, o \in CacheOutcomes : logoutResume(id, o)

Spec == Init /\ [][Next]_vars

-----------------------------------------------------------------------------
(* The operations that leave the cache alone                               *)

\* VerifyStatusCode.Unknown and ResetStatusCode.Unknown
VerifyUnknown == 500
ResetUnknown == 500

\* A VerifyEmailResponse / PasswordResetResponse; undefined fields are None.
Result(code, text, error) ==
  [t |-> "result", statusCode |-> code, statusText |-> text, error |-> error]
Bool(b) == [t |-> "bool", b |-> b]

\* response.status_code on a JSON null throws a TypeError.
IsNullValue(v) == v.t = "json" /\ v.json.isNull

\* catch (e) { if (e instanceof Error) result.error = e.message }
Caught(result, e) ==
  IF InstanceOfError(e) THEN [result EXCEPT !.error = Some(e.message)] ELSE result

resetPasswordCheck(o) ==
  LET result == Result(Some(ResetUnknown), Some(""), None)
      r == postAuthRequest(o)
  IN IF r.threw # None THEN Return(Caught(result, The(r.threw)))
     ELSE IF IsNullValue(The(r.ret)) THEN Return(Caught(result, TypeError))
     ELSE Return([result EXCEPT !.statusCode = Prop(The(r.ret), "status_code"),
                                !.statusText = Prop(The(r.ret), "status_text")])

resetPassword(o) ==
  LET result == Result(Some(ResetUnknown), Some(""), None)
      r == postAuthRequest(o)
  IN IF r.threw # None THEN Return(Caught(result, The(r.threw)))
     ELSE IF IsNullValue(The(r.ret)) THEN Return(Caught(result, TypeError))
     ELSE Return([result EXCEPT !.statusCode = Prop(The(r.ret), "status_code"),
                                !.statusText = Prop(The(r.ret), "status_text")])

verifyEmail(o) ==
  LET result == Result(Some(VerifyUnknown), Some(""), None)
      r == postAuthRequest(o)
  IN IF r.threw # None THEN Return(Caught(result, The(r.threw)))
     ELSE IF IsNullValue(The(r.ret)) THEN Return(Caught(result, TypeError))
     ELSE Return([result EXCEPT !.statusCode = Prop(The(r.ret), "status_code"),
                                !.statusText = Prop(The(r.ret), "status_text")])

resetPasswordRequest(o) ==
  IF postAuthRequest(o).threw # None THEN Return(Bool(FALSE)) ELSE Return(Bool(TRUE))

resendVerifyEmail(o) ==
  IF postAuthRequest(o).threw # None THEN Return(Bool(FALSE)) ELSE Return(Bool(TRUE))

isEmailAlreadyUsed(o) ==
  LET result == friendlyFetch(o) IN
  IF result.threw # None THEN result ELSE Return(Bool(o.ok))

updateEmail(o) == postAuthRequest(o)
updatePassword(o) == postAuthRequest(o)
buildingSubscribe(o) == postAuthRequest(o)
buildingUnsubscribe(o) == postAuthRequest(o)
emailUnsubscribeBuilding(o) == postAuthRequest(o)
emailUnsubscribeAll(o) == postAuthRequest(o)
emailUserSubscriptions(o) == postAuthRequest(o)

StatusFlows == {"resetPasswordCheck", "resetPassword", "verifyEmail"}
BoolFlows == {"resetPasswordRequest", "resendVerifyEmail", "isEmailAlreadyUsed"}
PassThroughOps ==
  {"userAuthenticated", "updateEmail", "updatePassword", "buildingSubscribe",
   "buildingUnsubscribe", "emailUnsubscribeBuilding", "emailUnsubscribeAll",
   "emailUserSubscriptions"}
FlowOps == StatusFlows \cup BoolFlows \cup PassThroughOps

\* The optional argument of resetPasswordRequest(username?) and of
\* resendVerifyEmail(token?) is given or not; the other operations always
\* get theirs.
FlowArgs(op) ==
  IF op \in {"resetPasswordRequest", "resendVerifyEmail"} THEN BOOLEAN ELSE {TRUE}

\* The request each operation hands to fetch: endpoint, method, and whether
\* postAuthRequest's `credentials: "include"` is set.
RequestOf(op, given) ==
  CASE op = "resetPasswordRequest" ->
         IF given THEN Request("auth/reset_password_request", "POST", TRUE)
         ELSE Request("auth/reset_password_request_with_token", "POST", TRUE)
    [] op = "resetPasswordCheck" -> Request("auth/reset_password/check", "POST", TRUE)
    [] op = "resetPassword" -> Request("auth/set_password", "POST", TRUE)
    [] op = "userAuthenticated" -> AuthCheck
    [] op = "verifyEmail" -> Request("auth/verify_email", "POST", TRUE)
    [] op = "resendVerifyEmail" ->
         IF given THEN Request("auth/resend_verification_with_token", "POST", TRUE)
         ELSE Request("auth/resend_verification", "POST", TRUE)
    [] op = "updateEmail" -> Request("auth/update", "POST", TRUE)
    [] op = "updatePassword" -> Request("auth/change_password", "POST", TRUE)
    [] op = "buildingSubscribe" -> Request("auth/subscriptions/{bbl}", "POST", TRUE)
    [] op = "buildingUnsubscribe" -> Request("auth/subscriptions/{bbl}", "DELETE", TRUE)
    [] op = "isEmailAlreadyUsed" -> Request("auth/account_exists/{email}", "GET", FALSE)
    [] op = "emailUnsubscribeBuilding" -> Request("auth/unsubscribe/{bbl}", "POST", TRUE)
    [] op = "emailUnsubscribeAll" -> Request("auth/email/unsubscribe", "POST", TRUE)
    [] op = "emailUserSubscriptions" -> Request("auth/email/subscriptions", "POST", TRUE)

\* How each operation ends on the outcome o of its request.
Client(op, o) ==
  CASE op = "resetPasswordRequest" -> resetPasswordRequest(o)
    [] op = "resetPasswordCheck" -> resetPasswordCheck(o)
    [] op = "resetPassword" -> resetPassword(o)
    [] op = "userAuthenticated" -> userAuthenticated(o)
    [] op = "verifyEmail" -> verifyEmail(o)
    [] op = "resendVerifyEmail" -> resendVerifyEmail(o)
    [] op = "updateEmail" -> updateEmail(o)
    [] op = "updatePassword" -> updatePassword(o)
    [] op = "buildingSubscribe" -> buildingSubscribe(o)
    [] op = "buildingUnsubscribe" -> buildingUnsubscribe(o)
    [] op = "isEmailAlreadyUsed" -> isEmailAlreadyUsed(o)
    [] op = "emailUnsubscribeBuilding" -> emailUnsubscribeBuilding(o)
    [] op = "emailUnsubscribeAll" -> emailUnsubscribeAll(o)
    [] op = "emailUserSubscriptions" -> emailUserSubscriptions(o)

\* A caller invokes one of these operations: its request goes out.
Invoke(id, op, given) ==
  /\ Free(id)
  /\ calls' = Await(calls, id, op, "caller")
  /\ last' = CallEvent(id, op, RequestOf(op, given))
  /\ UNCHANGED <<_user, prevFetch, sinceClear>>

\* The outcome of the request arrives and the operation runs to its end.
Settle(id, o) ==
  /\ calls[id].op \in FlowOps
  /\ calls' = Finish(calls, id)
  /\ last' = SettleEvent(id, o, Client(calls[id].op, o))
  /\ UNCHANGED <<_user, prevFetch, sinceClear>>

\* These operations share no state, with each other or with the cache: they
\* are run one at a time, on every outcome of their request.
NextFlows ==
  \/ \E op \in FlowOps : \E given \in FlowArgs(op) : Invoke(1, op, given)
  \/ \E o \in FlowOutcomes : Settle(1, o)
  \/ login(1)
  \/ \E o \in FlowOutcomes : loginResume(1, o)
  \/ logout(1)
  \/ \E o \in FlowOutcomes : logoutResume(1, o)

SpecFlows == Init /\ [][NextFlows]_vars

-----------------------------------------------------------------------------
(* Properties of the user cache, checked under Spec                        *)

AuthCheckIssued == last.request = Some(AuthCheck)

\* The step just taken is a caller's fetchUser() call.
FetchUserStarted == last.op = "fetchUser" /\ last.started

\* The step just taken settled a fetchUser() that had issued a check.
FetchUserSettled ==
  last.ev = "settle" /\ last.op = "fetchUser" /\ last.outcome # None

\* The authentication check answered with a logged-in user.
Authenticated(o) ==
  /\ o.kind = "response" /\ o.ok /\ o.body.parses
  /\ ~o.body.val.isNull /\ o.body.val.obj.email # None

\* The cache holds a user built from an answer that carried none.
Unauthentic(u) == u # None /\ The(u).email = None

\* The cache a response calls for: the user built from a truthy answer,
\* nothing for a falsy one.
UserOfResponse(o) ==
  LET v == IF o.body.parses THEN JsonValue(o.body.val) ELSE RawResponse(o) IN
  IF Truthy(v) THEN Some(UserFrom(v)) ELSE None

\* C1 as stated: of two fetchUser() calls in succession with no clearUser()
\* between them, at most one issues an authentication check, whatever the
\* server answered to the first.
C1_AtMostOneCheckWhateverAnswer ==
  FetchUserStarted /\ last.prev.valid /\ (last.prev.issued => last.prev.answered)
    => ~(last.prev.issued /\ AuthCheckIssued)

\* C1 amended: when the first of the two calls returned a user, the second
\* issues no authentication check.
C1_SecondCallHitsCache ==
  FetchUserStarted /\ last.prev.valid /\ last.prev.hadUser => ~AuthCheckIssued

C1_Witness ==
  /\ FetchUserStarted /\ last.prev.valid /\ last.prev.issued /\ last.prev.hadUser
  /\ ~AuthCheckIssued /\ last.ret = Some(UserValue(_user))
  /\ _user # None /\ ~Unauthentic(_user)

\* C2: when register() resolves, the authentication check it triggered has
\* been answered and the cache holds the user obtained from it.
C2_RegisterResolvesWithFreshCache ==
  last.ev = "settle" /\ last.op = "register" /\ last.threw = None
    => /\ AuthCheckIssued
       /\ calls[last.id].op # "fetchUser"
       /\ _user # None

\* C3: a fetchUser() whose authentication check yields no authenticated user
\* (no user in the answer, an error status, a transport failure) leaves the
\* cache empty when it completes (no other step having run meanwhile).
C3_FailedCheckClearsCache ==
  FetchUserSettled /\ last.isolated /\ ~Authenticated(The(last.outcome))
    => _user = None

\* C4 as stated: the fetchUser() call that follows a clearUser() issues a new
\* authentication check, also when earlier calls were pending at the
\* clearUser().  (Set aside the calls that find in the cache what an
\* unauthenticated answer left there, the subject of C3.)
C4_FetchAfterClearIssuesCheck ==
  FetchUserStarted /\ last.clearedPre # "no" /\ ~Unauthentic(last.userPre)
    => AuthCheckIssued

\* C4 amended: it does so provided no authentication check that was pending
\* has completed with a truthy answer since the clearUser().
C4_FetchAfterCleanClearIssuesCheck ==
  FetchUserStarted /\ last.clearedPre = "clean" => AuthCheckIssued

C4_Witness ==
  /\ FetchUserStarted /\ last.clearedPre = "clean" /\ AuthCheckIssued
  /\ last.peerPending

\* C8: login() and logout() leave the cache as it was when they were called,
\* whatever the outcome, no other step having run in between.
C8_LoginLogoutKeepCache ==
  last.ev = "settle" /\ last.op \in {"login", "logout"} /\ last.isolated
    => _user = last.before

C8_Witness ==
  /\ last.ev = "settle" /\ last.op = "logout" /\ last.isolated
  /\ last.threw = None /\ _user # None /\ _user = last.before

\* C9: a fetchUser() called on an empty cache while another authentication
\* check is pending issues its own check; and when a check settles after one
\* that was pending with it, the cache is what the answer processed last
\* calls for (a transport failure is no answer and writes nothing).
C9_LastWriteWins ==
  /\ FetchUserStarted /\ last.userPre = None /\ last.peerPending
       => AuthCheckIssued
  /\ FetchUserSettled /\ last.raced
       => IF The(last.outcome).kind = "response"
          THEN _user = UserOfResponse(The(last.outcome))
          ELSE _user = last.userPre

C9_Witness ==
  /\ FetchUserSettled /\ last.raced
  /\ last.userPre = Some(UserFrom(JsonValue(JsonObject(UserObjectA))))
  /\ _user = Some(UserFrom(JsonValue(JsonObject(UserObjectB))))

\* C10 as stated: once clearUser() has run, the cache stays empty until a
\* later setUser(), fetchUser() or register() call is started.  (Set aside
\* what an unauthenticated answer leaves in the cache, the subject of C3.)
C10_ClearedStaysEmpty ==
  sinceClear # "no" /\ ~Unauthentic(_user) => _user = None

\* C10 amended: ... or until an authentication check that was pending
\* completes with a truthy answer, which puts the user built from that answer
\* back into the cache.
C10_ClearedStaysEmptyUntilStaleAnswer ==
  /\ sinceClear = "clean" => _user = None
  /\ FetchUserSettled /\ last.clearedPre = "clean" /\ sinceClear = "stale"
       => _user = UserOfResponse(The(last.outcome)) /\ _user # None

C10_Witness ==
  /\ FetchUserSettled /\ last.clearedPre = "clean" /\ sinceClear = "clean"
  /\ last.by = "register" /\ _user = None

-----------------------------------------------------------------------------
(* Properties of the request outcomes, checked under SpecFlows             *)

Settled == last.ev = "settle" /\ last.outcome # None

\* The message of the failure friendlyFetch raises on a rejected fetch.
FailureMessage(o) == IF o.isError THEN o.message ELSE "Unexpected error"

\* C5: on a transport failure the reset / verify flows return
\* {statusCode: 500, statusText: "", error: <failure message>} and the
\* boolean-returning flows return false; none of them throws.
C5_TransportFailureNeverRaised ==
  Settled /\ The(last.outcome).kind = "reject"
    => /\ last.op \in StatusFlows
            => /\ last.threw = None
               /\ last.ret = Some(Result(Some(500), Some(""),
                                         Some(FailureMessage(The(last.outcome)))))
       /\ last.op \in BoolFlows
            => last.threw = None /\ last.ret = Some(Bool(FALSE))

\* C6: on a body that is not JSON the reset / verify flows do not throw and
\* return a result whose error field holds the failure message.
C6_ParseFailureInErrorField ==
  (/\ Settled /\ last.op \in StatusFlows
   /\ The(last.outcome).kind = "response" /\ ~The(last.outcome).body.parses)
    => last.threw = None /\ The(last.ret).error # None

\* C7: on a body that is not JSON, every operation that returns the parsed
\* body (those returning postAuthRequest's value, and login) returns the raw
\* response object and does not throw.
C7_ParseFailureReturnsRawResponse ==
  (/\ Settled /\ last.op \in PassThroughOps \cup {"login", "logout"}
   /\ The(last.outcome).kind = "response" /\ ~The(last.outcome).body.parses)
    => last.threw = None /\ last.ret = Some(RawResponse(The(last.outcome)))

====
